---- MODULE Spec2Model ----
(***************************************************************************)
(* Model of pytcsschemahelper/versions.py: three string-valued version     *)
(* enumerations, three default-version constants, two compatibility        *)
(* matrices (module-level dicts) and the two lookup predicates             *)
(* is_emissions_report_compatible and is_tcs_compatible.                   *)
(*                                                                         *)
(* The module-level names are the state (Python module globals are         *)
(* mutable bindings, the matrices are mutable dicts); every call of one of *)
(* the two predicates is one action.                                       *)
(***************************************************************************)
EXTENDS Integers, Sequences, FiniteSets, TLC

(***************************************************************************)
(* Bounds of the model.                                                    *)
(***************************************************************************)
\* Largest MINOR and PATCH component of the version-shaped identifiers
\* passed as arguments: every "0.b.c" with b in 0..MaxMinor and c in
\* 0..MaxPatch is an input.
MaxMinor == 1

MaxPatch == 3

\* Calls are counted up to MaxCalls (the count saturates, calls go on).
MaxCalls == 2

\* A version identifier as the string "MAJOR.MINOR.PATCH".
VersionString(t) == ToString(t[1]) \o "." \o ToString(t[2]) \o "." \o ToString(t[3])

VersionTuples == {0} \X (0..MaxMinor) \X (0..MaxPatch)

\* Strings that are no version of any layer and not even version-shaped.
OtherStrings == {"", "9.9.9", "latest"}

\* The argument values the callers pass: plain strings (a str-mixin enum
\* member hashes and compares as its string value, so passing a member is
\* passing its value).
Identifiers == {VersionString(t) : t \in VersionTuples} \cup OtherStrings

(***************************************************************************)
(* Python building blocks.                                                 *)
(***************************************************************************)
\* class X(str, Enum): a class is its body in definition order, one
\* [name, value] record per assignment.  Enum turns an assignment whose
\* value repeats an earlier one into an alias of that member; iteration and
\* len() see only the first member of each value.
RECURSIVE EnumMembers(_)
EnumMembers(body) ==
    IF body = <<>> THEN <<>>
    ELSE LET front == EnumMembers(SubSeq(body, 1, Len(body) - 1))
             last  == body[Len(body)]
         IN  IF \E i \in 1..Len(front) : front[i].value = last.value
             THEN front
             ELSE Append(front, last)

\* X.NAME: attribute access on the enum class.  The member is a str
\* (str.__eq__ / str.__hash__ come first in the MRO), so wherever it is
\* hashed or compared it acts as its value.
EnumAttr(body, name) ==
    body[CHOOSE i \in 1..Len(body) : body[i].name = name].value

\* len(X)
EnumLen(body) == Len(EnumMembers(body))

\* The values of the members of X, as a set ({m.value for m in X}).
EnumValues(body) ==
    {EnumMembers(body)[i].value : i \in 1..Len(EnumMembers(body))}

\* { k1: v1, k2: v2, ... }: a dict display, given as a sequence of
\* <<key, value>> items; a repeated key keeps the last value.
DictLiteral(items) ==
    [k \in {items[i][1] : i \in 1..Len(items)} |->
        LET last == CHOOSE i \in 1..Len(items) :
                        /\ items[i][1] = k
                        /\ \A j \in (i + 1)..Len(items) : items[j][1] # k
        IN  items[last][2]]

\* Variant: d[key] in place of d.get(key, default); an absent key raises.
DictGet_subscript(d, key, default) ==
    IF key \in DOMAIN d
    THEN [exc |-> "none", value |-> d[key]]
    ELSE [exc |-> "KeyError", value |-> default]

\* d.get(key, default): the value returned.  Never raises for a hashable
\* key (every str is hashable).
DictGet(d, key, default) ==
    IF key \in DOMAIN d
    THEN [exc |-> "none", value |-> d[key]]
    ELSE [exc |-> "none", value |-> default]

\* Variant: d.setdefault(key, default) in place of d.get(key, default); an
\* absent key is inserted.
DictAfterGet_setdefault(d, key, default) ==
    IF key \in DOMAIN d THEN d
    ELSE [k \in DOMAIN d \cup {key} |-> IF k = key THEN default ELSE d[k]]

\* d.get(key, default): the dict afterwards.  get() inserts nothing.
DictAfterGet(d, key, default) == d

\* Variant: the first element is never compared.
ListContains_fromSecond(lst, x) == \E i \in 2..Len(lst) : lst[i] = x

\* x in lst: list membership by ==.
ListContains(lst, x) == \E i \in 1..Len(lst) : lst[i] = x

(***************************************************************************)
(* Module-level data of versions.py.                                       *)
(***************************************************************************)
\* Variant: a version added to the enumeration only.
ReportingOrgVersion_class_added ==
    << [name |-> "V0_0_1", value |-> "0.0.1"],
       [name |-> "V0_1_0", value |-> "0.1.0"],
       [name |-> "V0_1_1", value |-> "0.1.1"],
       [name |-> "V0_1_2", value |-> "0.1.2"],
       [name |-> "V0_1_3", value |-> "0.1.3"] >>

ReportingOrgVersion_class ==
    << [name |-> "V0_0_1", value |-> "0.0.1"],
       [name |-> "V0_1_0", value |-> "0.1.0"],
       [name |-> "V0_1_1", value |-> "0.1.1"],
       [name |-> "V0_1_2", value |-> "0.1.2"] >>

EmissionsReportVersion_class ==
    << [name |-> "V0_0_1", value |-> "0.0.1"],
       [name |-> "V0_0_2", value |-> "0.0.2"],
       [name |-> "V0_0_3", value |-> "0.0.3"] >>

\* Variant: V0_1_0 written with the value of V0_0_2, which makes it an alias.
TCSVersion_class_alias ==
    << [name |-> "V0_0_1", value |-> "0.0.1"],
       [name |-> "V0_0_2", value |-> "0.0.2"],
       [name |-> "V0_1_0", value |-> "0.0.2"] >>

TCSVersion_class ==
    << [name |-> "V0_0_1", value |-> "0.0.1"],
       [name |-> "V0_0_2", value |-> "0.0.2"],
       [name |-> "V0_1_0", value |-> "0.1.0"] >>

\* Variant: the default left at the previous version.
DEFAULT_REPORTING_ORG_VERSION_value_stale == EnumAttr(ReportingOrgVersion_class, "V0_1_1")

DEFAULT_REPORTING_ORG_VERSION_value == EnumAttr(ReportingOrgVersion_class, "V0_1_2")

DEFAULT_EMISSIONS_REPORT_VERSION_value == EnumAttr(EmissionsReportVersion_class, "V0_0_3")

DEFAULT_TCS_VERSION_value == EnumAttr(TCSVersion_class, "V0_1_0")

\* Variant: the newest parent lists TCSVersion.V0_1_0 where
\* EmissionsReportVersion.V0_0_3 belongs.
REPORTING_ORG_COMPATIBILITY_literal_wrongEnum ==
    LET RO(n)  == EnumAttr(ReportingOrgVersion_class, n)
        ER(n)  == EnumAttr(EmissionsReportVersion_class, n)
        TCS(n) == EnumAttr(TCSVersion_class, n)
    IN  DictLiteral(<<
            << RO("V0_1_2"), << ER("V0_0_1"), ER("V0_0_2"), TCS("V0_1_0") >> >>,
            << RO("V0_1_1"), << ER("V0_0_1"), ER("V0_0_2"), ER("V0_0_3") >> >>,
            << RO("V0_1_0"), << ER("V0_0_1"), ER("V0_0_2") >> >>,
            << RO("V0_0_1"), << ER("V0_0_1") >> >> >>)

\* Variant: V0_1_0 lists V0_0_3 where V0_0_2 belongs, leaving a gap.
REPORTING_ORG_COMPATIBILITY_literal_gap ==
    LET RO(n) == EnumAttr(ReportingOrgVersion_class, n)
        ER(n) == EnumAttr(EmissionsReportVersion_class, n)
    IN  DictLiteral(<<
            << RO("V0_1_2"), << ER("V0_0_1"), ER("V0_0_2"), ER("V0_0_3") >> >>,
            << RO("V0_1_1"), << ER("V0_0_1"), ER("V0_0_2"), ER("V0_0_3") >> >>,
            << RO("V0_1_0"), << ER("V0_0_1"), ER("V0_0_3") >> >>,
            << RO("V0_0_1"), << ER("V0_0_1") >> >> >>)

REPORTING_ORG_COMPATIBILITY_literal ==
    LET RO(n) == EnumAttr(ReportingOrgVersion_class, n)
        ER(n) == EnumAttr(EmissionsReportVersion_class, n)
    IN  DictLiteral(<<
            << RO("V0_1_2"), << ER("V0_0_1"), ER("V0_0_2"), ER("V0_0_3") >> >>,
            << RO("V0_1_1"), << ER("V0_0_1"), ER("V0_0_2"), ER("V0_0_3") >> >>,
            << RO("V0_1_0"), << ER("V0_0_1"), ER("V0_0_2") >> >>,
            << RO("V0_0_1"), << ER("V0_0_1") >> >> >>)

\* Variant: the newest parent no longer lists the oldest child.
EMISSIONS_REPORT_COMPATIBILITY_literal_dropped ==
    LET ER(n)  == EnumAttr(EmissionsReportVersion_class, n)
        TCS(n) == EnumAttr(TCSVersion_class, n)
    IN  DictLiteral(<<
            << ER("V0_0_3"), << TCS("V0_0_2"), TCS("V0_1_0") >> >>,
            << ER("V0_0_2"), << TCS("V0_0_1"), TCS("V0_0_2") >> >>,
            << ER("V0_0_1"), << TCS("V0_0_1") >> >> >>)

EMISSIONS_REPORT_COMPATIBILITY_literal ==
    LET ER(n)  == EnumAttr(EmissionsReportVersion_class, n)
        TCS(n) == EnumAttr(TCSVersion_class, n)
    IN  DictLiteral(<<
            << ER("V0_0_3"), << TCS("V0_0_1"), TCS("V0_0_2"), TCS("V0_1_0") >> >>,
            << ER("V0_0_2"), << TCS("V0_0_1"), TCS("V0_0_2") >> >>,
            << ER("V0_0_1"), << TCS("V0_0_1") >> >> >>)

(***************************************************************************)
(* State.                                                                  *)
(***************************************************************************)
VARIABLES
    ReportingOrgVersion,              \* the three enum classes (member lists)
    EmissionsReportVersion,
    TCSVersion,
    DEFAULT_REPORTING_ORG_VERSION,    \* the three default constants
    DEFAULT_EMISSIONS_REPORT_VERSION,
    DEFAULT_TCS_VERSION,
    REPORTING_ORG_COMPATIBILITY,      \* the two matrices (dicts of lists)
    EMISSIONS_REPORT_COMPATIBILITY,
    call,                             \* the last call: [fn, parent, child]
    outcome,                          \* its outcome: [exc, value]
    ncalls                            \* calls made so far, up to MaxCalls

vars == << ReportingOrgVersion, EmissionsReportVersion, TCSVersion,
           DEFAULT_REPORTING_ORG_VERSION, DEFAULT_EMISSIONS_REPORT_VERSION,
           DEFAULT_TCS_VERSION,
           REPORTING_ORG_COMPATIBILITY, EMISSIONS_REPORT_COMPATIBILITY,
           call, outcome, ncalls >>

NoCall == [fn |-> "none", parent |-> "", child |-> ""]

NoOutcome == [exc |-> "none", value |-> FALSE]

\* The module after import: every module-level statement has run once.
Init ==
    /\ ReportingOrgVersion = ReportingOrgVersion_class
    /\ EmissionsReportVersion = EmissionsReportVersion_class
    /\ TCSVersion = TCSVersion_class
    /\ DEFAULT_REPORTING_ORG_VERSION = DEFAULT_REPORTING_ORG_VERSION_value
    /\ DEFAULT_EMISSIONS_REPORT_VERSION = DEFAULT_EMISSIONS_REPORT_VERSION_value
    /\ DEFAULT_TCS_VERSION = DEFAULT_TCS_VERSION_value
    /\ REPORTING_ORG_COMPATIBILITY = REPORTING_ORG_COMPATIBILITY_literal
    /\ EMISSIONS_REPORT_COMPATIBILITY = EMISSIONS_REPORT_COMPATIBILITY_literal
    /\ call = NoCall
    /\ outcome = NoOutcome
    /\ ncalls = 0

(***************************************************************************)
(* The two predicates.                                                     *)
(***************************************************************************)
\* Variant: the arguments are used the other way round.
is_emissions_report_compatible_swapped(reporting_org_version, emissions_report_version) ==
    LET compatible_versions ==
            DictGet(REPORTING_ORG_COMPATIBILITY, emissions_report_version, <<>>)
    IN  IF compatible_versions.exc # "none"
        THEN [exc |-> compatible_versions.exc, value |-> FALSE]
        ELSE [exc |-> "none",
              value |-> ListContains(compatible_versions.value,
                                     reporting_org_version)]

\* compatible_versions = MATRIX.get(parent, []); return child in
\* compatible_versions.  An exception of the lookup propagates.
is_emissions_report_compatible(reporting_org_version, emissions_report_version) ==
    LET compatible_versions ==
            DictGet(REPORTING_ORG_COMPATIBILITY, reporting_org_version, <<>>)
    IN  IF compatible_versions.exc # "none"
        THEN [exc |-> compatible_versions.exc, value |-> FALSE]
        ELSE [exc |-> "none",
              value |-> ListContains(compatible_versions.value,
                                     emissions_report_version)]

\* Variant: the lookup goes to the other matrix.
is_tcs_compatible_otherMatrix(emissions_report_version, tcs_version) ==
    LET compatible_versions ==
            DictGet(REPORTING_ORG_COMPATIBILITY, emissions_report_version, <<>>)
    IN  IF compatible_versions.exc # "none"
        THEN [exc |-> compatible_versions.exc, value |-> FALSE]
        ELSE [exc |-> "none",
              value |-> ListContains(compatible_versions.value, tcs_version)]

is_tcs_compatible(emissions_report_version, tcs_version) ==
    LET compatible_versions ==
            DictGet(EMISSIONS_REPORT_COMPATIBILITY, emissions_report_version, <<>>)
    IN  IF compatible_versions.exc # "none"
        THEN [exc |-> compatible_versions.exc, value |-> FALSE]
        ELSE [exc |-> "none",
              value |-> ListContains(compatible_versions.value, tcs_version)]

Count(n) == IF n < MaxCalls THEN n + 1 ELSE n

\* A caller calls is_emissions_report_compatible(p, c).
CallIsEmissionsReportCompatible ==
    \E p \in Identifiers, c \in Identifiers :
        /\ call' = [fn |-> "is_emissions_report_compatible",
                    parent |-> p, child |-> c]
        /\ outcome' = is_emissions_report_compatible(p, c)
        /\ REPORTING_ORG_COMPATIBILITY' =
               DictAfterGet(REPORTING_ORG_COMPATIBILITY, p, <<>>)
        /\ ncalls' = Count(ncalls)
        /\ UNCHANGED << ReportingOrgVersion, EmissionsReportVersion, TCSVersion,
                        DEFAULT_REPORTING_ORG_VERSION,
                        DEFAULT_EMISSIONS_REPORT_VERSION, DEFAULT_TCS_VERSION,
                        EMISSIONS_REPORT_COMPATIBILITY >>

\* A caller calls is_tcs_compatible(p, c).
CallIsTcsCompatible ==
    \E p \in Identifiers, c \in Identifiers :
        /\ call' = [fn |-> "is_tcs_compatible", parent |-> p, child |-> c]
        /\ outcome' = is_tcs_compatible(p, c)
        /\ EMISSIONS_REPORT_COMPATIBILITY' =
               DictAfterGet(EMISSIONS_REPORT_COMPATIBILITY, p, <<>>)
        /\ ncalls' = Count(ncalls)
        /\ UNCHANGED << ReportingOrgVersion, EmissionsReportVersion, TCSVersion,
                        DEFAULT_REPORTING_ORG_VERSION,
                        DEFAULT_EMISSIONS_REPORT_VERSION, DEFAULT_TCS_VERSION,
                        REPORTING_ORG_COMPATIBILITY >>

Next ==
    \/ CallIsEmissionsReportCompatible
    \/ CallIsTcsCompatible

Spec == Init /\ [][Next]_vars

(***************************************************************************)
(* Reference data of the specification (section 6), written out.          *)
(***************************************************************************)
SpecReportingOrgVersions == {"0.0.1", "0.1.0", "0.1.1", "0.1.2"}

SpecEmissionsReportVersions == {"0.0.1", "0.0.2", "0.0.3"}

SpecTCSVersions == {"0.0.1", "0.0.2", "0.1.0"}

SpecReportingOrgMatrix ==
    {<<"0.1.2", "0.0.1">>, <<"0.1.2", "0.0.2">>, <<"0.1.2", "0.0.3">>,
     <<"0.1.1", "0.0.1">>, <<"0.1.1", "0.0.2">>, <<"0.1.1", "0.0.3">>,
     <<"0.1.0", "0.0.1">>, <<"0.1.0", "0.0.2">>,
     <<"0.0.1", "0.0.1">>}

SpecEmissionsReportMatrix ==
    {<<"0.0.3", "0.0.1">>, <<"0.0.3", "0.0.2">>, <<"0.0.3", "0.1.0">>,
     <<"0.0.2", "0.0.1">>, <<"0.0.2", "0.0.2">>,
     <<"0.0.1", "0.0.1">>}

Returned(b) == [exc |-> "none", value |-> b]

IsEmissionsReportCall == call.fn = "is_emissions_report_compatible"

IsTcsCall == call.fn = "is_tcs_compatible"

(***************************************************************************)
(* Claims.                                                                 *)
(***************************************************************************)
\* C1: over the 4 x 3 cross product of the Reporting-Org and the
\* Emissions-Report enumeration, is_emissions_report_compatible(p, c)
\* returns true exactly for the pairs of the reference matrix, and false for
\* the 3 remaining pairs; a call made with such a pair has returned that
\* value.
C1_EmissionsReportMatrix ==
    /\ \A p \in SpecReportingOrgVersions, c \in SpecEmissionsReportVersions :
           is_emissions_report_compatible(p, c)
               = Returned(<<p, c>> \in SpecReportingOrgMatrix)
    /\ Cardinality({pc \in SpecReportingOrgVersions \X SpecEmissionsReportVersions :
                       is_emissions_report_compatible(pc[1], pc[2]) = Returned(FALSE)}) = 3
    /\ (/\ IsEmissionsReportCall
        /\ call.parent \in SpecReportingOrgVersions
        /\ call.child \in SpecEmissionsReportVersions)
           => outcome = Returned(<<call.parent, call.child>> \in SpecReportingOrgMatrix)

\* A call inside the enumerations that the matrix rejects has returned false.
C1_Witness ==
    /\ IsEmissionsReportCall
    /\ call.parent = "0.1.0"
    /\ call.child = "0.0.3"
    /\ outcome = Returned(FALSE)

\* C2: over the 3 x 3 cross product of the Emissions-Report and the TCS-data
\* enumeration, is_tcs_compatible(p, c) returns true exactly for the pairs of
\* the reference matrix, and false for the 3 remaining pairs; a call made
\* with such a pair has returned that value.
C2_TcsMatrix ==
    /\ \A p \in SpecEmissionsReportVersions, c \in SpecTCSVersions :
           is_tcs_compatible(p, c)
               = Returned(<<p, c>> \in SpecEmissionsReportMatrix)
    /\ Cardinality({pc \in SpecEmissionsReportVersions \X SpecTCSVersions :
                       is_tcs_compatible(pc[1], pc[2]) = Returned(FALSE)}) = 3
    /\ (/\ IsTcsCall
        /\ call.parent \in SpecEmissionsReportVersions
        /\ call.child \in SpecTCSVersions)
           => outcome = Returned(<<call.parent, call.child>> \in SpecEmissionsReportMatrix)

\* The newest Emissions-Report version has been asked about the newest
\* TCS-data version and accepted it.
C2_Witness ==
    /\ IsTcsCall
    /\ call.parent = "0.0.3"
    /\ call.child = "0.1.0"
    /\ outcome = Returned(TRUE)

\* C3: both predicates are total; for a parent that is no key of the
\* predicate's matrix (a string outside the parent layer's enumeration) and
\* any child, the call returns false and raises nothing.
C3_UnknownParentIsFalse ==
    /\ \A p \in Identifiers, c \in Identifiers :
           /\ is_emissions_report_compatible(p, c).exc = "none"
           /\ is_tcs_compatible(p, c).exc = "none"
           /\ p \notin SpecReportingOrgVersions
                  => is_emissions_report_compatible(p, c) = Returned(FALSE)
           /\ p \notin SpecEmissionsReportVersions
                  => is_tcs_compatible(p, c) = Returned(FALSE)
    /\ call.fn # "none" => outcome.exc = "none"
    /\ (IsEmissionsReportCall /\ call.parent \notin DOMAIN REPORTING_ORG_COMPATIBILITY)
           => outcome = Returned(FALSE)
    /\ (IsTcsCall /\ call.parent \notin DOMAIN EMISSIONS_REPORT_COMPATIBILITY)
           => outcome = Returned(FALSE)

\* "0.0.2" is an Emissions-Report and a TCS-data version, but no
\* Reporting-Org version: asked as a Reporting-Org parent about a valid
\* child, the predicate has returned false.
C3_Witness ==
    /\ IsEmissionsReportCall
    /\ call.parent = "0.0.2"
    /\ call.child = "0.0.1"
    /\ call.parent \notin DOMAIN REPORTING_ORG_COMPATIBILITY
    /\ outcome = Returned(FALSE)

\* C4: a child outside the child layer's enumeration is compatible with
\* nothing: whatever the parent, is_emissions_report_compatible returns false
\* for a child outside the Emissions-Report enumeration and
\* is_tcs_compatible returns false for a child outside the TCS-data
\* enumeration.
C4_UnknownChildIsFalse ==
    /\ \A p \in Identifiers, c \in Identifiers :
           /\ c \notin EnumValues(EmissionsReportVersion)
                  => is_emissions_report_compatible(p, c) = Returned(FALSE)
           /\ c \notin EnumValues(TCSVersion)
                  => is_tcs_compatible(p, c) = Returned(FALSE)
    /\ (IsEmissionsReportCall /\ call.child \notin SpecEmissionsReportVersions)
           => outcome = Returned(FALSE)
    /\ (IsTcsCall /\ call.child \notin SpecTCSVersions)
           => outcome = Returned(FALSE)

\* "0.1.0" is a Reporting-Org and a TCS-data version, but no
\* Emissions-Report version: the newest Reporting-Org version has rejected it.
C4_Witness ==
    /\ IsEmissionsReportCall
    /\ call.parent = "0.1.2"
    /\ call.child = "0.1.0"
    /\ call.child \notin EnumValues(EmissionsReportVersion)
    /\ outcome = Returned(FALSE)

\* C5: every member of the Reporting-Org enumeration is a key of
\* REPORTING_ORG_COMPATIBILITY, every member of the Emissions-Report
\* enumeration is a key of EMISSIONS_REPORT_COMPATIBILITY, and each such key
\* maps to a non-empty list.
C5_MatrixCoverage ==
    /\ \A v \in EnumValues(ReportingOrgVersion) :
           /\ v \in DOMAIN REPORTING_ORG_COMPATIBILITY
           /\ Len(REPORTING_ORG_COMPATIBILITY[v]) > 0
    /\ \A v \in EnumValues(EmissionsReportVersion) :
           /\ v \in DOMAIN EMISSIONS_REPORT_COMPATIBILITY
           /\ Len(EMISSIONS_REPORT_COMPATIBILITY[v]) > 0

\* After calls have been made, the last one with a parent that is a member
\* of the enumeration, the member's entry is there and is not empty.
C5_Witness ==
    /\ ncalls = MaxCalls
    /\ IsTcsCall
    /\ call.parent \in EnumValues(EmissionsReportVersion)
    /\ call.parent \in DOMAIN EMISSIONS_REPORT_COMPATIBILITY
    /\ Len(EMISSIONS_REPORT_COMPATIBILITY[call.parent]) > 0
    /\ EnumLen(ReportingOrgVersion) = 4
    /\ Cardinality(DOMAIN REPORTING_ORG_COMPATIBILITY) = 4

\* The versions of a layer, oldest to newest.
ReportingOrgOldestToNewest == <<"0.0.1", "0.1.0", "0.1.1", "0.1.2">>

EmissionsReportOldestToNewest == <<"0.0.1", "0.0.2", "0.0.3">>

\* The elements of a list, as a set.
Elements(lst) == {lst[i] : i \in 1..Len(lst)}

\* C6: with the parents of a layer ordered oldest to newest, the list a
\* newer parent maps to holds every child the list of an older parent holds,
\* in both matrices; so whenever a predicate returns true for (p_old, c) it
\* returns true for (p_new, c), and a call with (p_new, c) has returned true
\* if an older parent accepts c.
C6_Monotonic ==
    /\ \A i, j \in 1..Len(ReportingOrgOldestToNewest) :
           i < j =>
               LET p_old == ReportingOrgOldestToNewest[i]
                   p_new == ReportingOrgOldestToNewest[j]
               IN  /\ Elements(REPORTING_ORG_COMPATIBILITY[p_old])
                          \subseteq Elements(REPORTING_ORG_COMPATIBILITY[p_new])
                   /\ \A c \in Identifiers :
                          is_emissions_report_compatible(p_old, c).value
                              => is_emissions_report_compatible(p_new, c).value
                   /\ \A c \in Identifiers :
                          (/\ IsEmissionsReportCall
                           /\ call.parent = p_new
                           /\ call.child = c
                           /\ is_emissions_report_compatible(p_old, c).value)
                              => outcome = Returned(TRUE)
    /\ \A i, j \in 1..Len(EmissionsReportOldestToNewest) :
           i < j =>
               LET p_old == EmissionsReportOldestToNewest[i]
                   p_new == EmissionsReportOldestToNewest[j]
               IN  /\ Elements(EMISSIONS_REPORT_COMPATIBILITY[p_old])
                          \subseteq Elements(EMISSIONS_REPORT_COMPATIBILITY[p_new])
                   /\ \A c \in Identifiers :
                          is_tcs_compatible(p_old, c).value
                              => is_tcs_compatible(p_new, c).value
                   /\ \A c \in Identifiers :
                          (/\ IsTcsCall
                           /\ call.parent = p_new
                           /\ call.child = c
                           /\ is_tcs_compatible(p_old, c).value)
                              => outcome = Returned(TRUE)

\* The newest Emissions-Report version has accepted the TCS-data version
\* that the oldest one accepts.
C6_Witness ==
    /\ IsTcsCall
    /\ call.parent = "0.0.3"
    /\ call.child = "0.0.1"
    /\ is_tcs_compatible("0.0.1", call.child).value
    /\ outcome = Returned(TRUE)

\* "MAJOR.MINOR.PATCH" read back as <<MAJOR, MINOR, PATCH>>.
ParseVersion(s) == CHOOSE t \in VersionTuples : VersionString(t) = s

\* Version a is newer than version b.
Newer(a, b) ==
    LET x == ParseVersion(a)
        y == ParseVersion(b)
    IN  \/ x[1] > y[1]
        \/ x[1] = y[1] /\ x[2] > y[2]
        \/ x[1] = y[1] /\ x[2] = y[2] /\ x[3] > y[3]

\* C7: each default constant is a member of its layer's enumeration, has
\* the value "0.1.2" / "0.0.3" / "0.1.0", and no member of the enumeration
\* is newer than it.
C7_DefaultsAreNewest ==
    /\ DEFAULT_REPORTING_ORG_VERSION = "0.1.2"
    /\ DEFAULT_EMISSIONS_REPORT_VERSION = "0.0.3"
    /\ DEFAULT_TCS_VERSION = "0.1.0"
    /\ DEFAULT_REPORTING_ORG_VERSION \in EnumValues(ReportingOrgVersion)
    /\ DEFAULT_EMISSIONS_REPORT_VERSION \in EnumValues(EmissionsReportVersion)
    /\ DEFAULT_TCS_VERSION \in EnumValues(TCSVersion)
    /\ \A v \in EnumValues(ReportingOrgVersion) :
           ~Newer(v, DEFAULT_REPORTING_ORG_VERSION)
    /\ \A v \in EnumValues(EmissionsReportVersion) :
           ~Newer(v, DEFAULT_EMISSIONS_REPORT_VERSION)
    /\ \A v \in EnumValues(TCSVersion) :
           ~Newer(v, DEFAULT_TCS_VERSION)

\* The defaults have been used as arguments, and each is newer than some
\* other member of its enumeration.
C7_Witness ==
    /\ IsTcsCall
    /\ call.parent = DEFAULT_EMISSIONS_REPORT_VERSION
    /\ call.child = DEFAULT_TCS_VERSION
    /\ \E v \in EnumValues(ReportingOrgVersion) :
           Newer(DEFAULT_REPORTING_ORG_VERSION, v)
    /\ \E v \in EnumValues(EmissionsReportVersion) :
           Newer(DEFAULT_EMISSIONS_REPORT_VERSION, v)
    /\ \E v \in EnumValues(TCSVersion) :
           Newer(DEFAULT_TCS_VERSION, v)

\* C8: the enumerations have exactly the members "0.0.1", "0.1.0", "0.1.1",
\* "0.1.2" (Reporting-Org, 4), "0.0.1", "0.0.2", "0.0.3" (Emissions-Report,
\* 3) and "0.0.1", "0.0.2", "0.1.0" (TCS-data, 3); the members of one
\* enumeration are pairwise distinct; a member equals its string value.
C8_Enumerations ==
    /\ EnumValues(ReportingOrgVersion) = SpecReportingOrgVersions
    /\ EnumValues(EmissionsReportVersion) = SpecEmissionsReportVersions
    /\ EnumValues(TCSVersion) = SpecTCSVersions
    /\ EnumLen(ReportingOrgVersion) = 4
    /\ EnumLen(EmissionsReportVersion) = 3
    /\ EnumLen(TCSVersion) = 3
    /\ \A enum \in {ReportingOrgVersion, EmissionsReportVersion, TCSVersion} :
           /\ \A i, j \in 1..Len(enum) :
                  i # j => /\ enum[i].value # enum[j].value
                           /\ enum[i].name # enum[j].name
           /\ EnumMembers(enum) = enum
    /\ EnumAttr(ReportingOrgVersion, "V0_0_1") = "0.0.1"
    /\ EnumAttr(ReportingOrgVersion, "V0_1_0") = "0.1.0"
    /\ EnumAttr(ReportingOrgVersion, "V0_1_1") = "0.1.1"
    /\ EnumAttr(ReportingOrgVersion, "V0_1_2") = "0.1.2"
    /\ EnumAttr(EmissionsReportVersion, "V0_0_1") = "0.0.1"
    /\ EnumAttr(EmissionsReportVersion, "V0_0_2") = "0.0.2"
    /\ EnumAttr(EmissionsReportVersion, "V0_0_3") = "0.0.3"
    /\ EnumAttr(TCSVersion, "V0_0_1") = "0.0.1"
    /\ EnumAttr(TCSVersion, "V0_0_2") = "0.0.2"
    /\ EnumAttr(TCSVersion, "V0_1_0") = "0.1.0"

\* A member of the TCS-data enumeration, passed as the plain string, has
\* been found in a list of members.
C8_Witness ==
    /\ IsTcsCall
    /\ call.child = EnumAttr(TCSVersion, "V0_1_0")
    /\ call.child = "0.1.0"
    /\ call.parent = EnumAttr(EmissionsReportVersion, "V0_0_3")
    /\ outcome = Returned(TRUE)
    /\ ncalls = 1

\* The value a predicate returns when it reads the matrix as written in the
\* source.
FromLiteral(matrix, parent, child) ==
    Returned(parent \in DOMAIN matrix /\ child \in Elements(matrix[parent]))

\* C9: after any sequence of calls of the two predicates, with arbitrary
\* arguments, the two matrices, the three enumerations and the three
\* defaults have their initial values, and the outcome of a call is the one
\* the initial matrices give for its arguments, whatever calls preceded it.
C9_Purity ==
    /\ REPORTING_ORG_COMPATIBILITY = REPORTING_ORG_COMPATIBILITY_literal
    /\ EMISSIONS_REPORT_COMPATIBILITY = EMISSIONS_REPORT_COMPATIBILITY_literal
    /\ ReportingOrgVersion = ReportingOrgVersion_class
    /\ EmissionsReportVersion = EmissionsReportVersion_class
    /\ TCSVersion = TCSVersion_class
    /\ DEFAULT_REPORTING_ORG_VERSION = DEFAULT_REPORTING_ORG_VERSION_value
    /\ DEFAULT_EMISSIONS_REPORT_VERSION = DEFAULT_EMISSIONS_REPORT_VERSION_value
    /\ DEFAULT_TCS_VERSION = DEFAULT_TCS_VERSION_value
    /\ IsEmissionsReportCall =>
           outcome = FromLiteral(REPORTING_ORG_COMPATIBILITY_literal,
                                 call.parent, call.child)
    /\ IsTcsCall =>
           outcome = FromLiteral(EMISSIONS_REPORT_COMPATIBILITY_literal,
                                 call.parent, call.child)

\* Several calls have been made, the last one with an identifier that is no
\* version at all, and the data is as it was.
C9_Witness ==
    /\ ncalls = MaxCalls
    /\ ncalls > 1
    /\ IsEmissionsReportCall
    /\ call.parent = "latest"
    /\ call.parent \notin DOMAIN REPORTING_ORG_COMPATIBILITY
    /\ REPORTING_ORG_COMPATIBILITY = REPORTING_ORG_COMPATIBILITY_literal

\* C10: the defaults form a chain (the default Reporting-Org version
\* accepts the default Emissions-Report version, which accepts the default
\* TCS-data version), and every Reporting-Org version has a complete chain:
\* an Emissions-Report version it accepts that accepts some TCS-data version.
C10_DefaultChain ==
    /\ is_emissions_report_compatible(DEFAULT_REPORTING_ORG_VERSION,
                                      DEFAULT_EMISSIONS_REPORT_VERSION)
           = Returned(TRUE)
    /\ is_tcs_compatible(DEFAULT_EMISSIONS_REPORT_VERSION, DEFAULT_TCS_VERSION)
           = Returned(TRUE)
    /\ \A p \in EnumValues(ReportingOrgVersion) :
           \E e \in EnumValues(EmissionsReportVersion), t \in EnumValues(TCSVersion) :
               /\ is_emissions_report_compatible(p, e) = Returned(TRUE)
               /\ is_tcs_compatible(e, t) = Returned(TRUE)
    /\ (/\ IsEmissionsReportCall
        /\ call.parent = DEFAULT_REPORTING_ORG_VERSION
        /\ call.child = DEFAULT_EMISSIONS_REPORT_VERSION) => outcome = Returned(TRUE)
    /\ (/\ IsTcsCall
        /\ call.parent = DEFAULT_EMISSIONS_REPORT_VERSION
        /\ call.child = DEFAULT_TCS_VERSION) => outcome = Returned(TRUE)

\* The default Reporting-Org version has accepted the default
\* Emissions-Report version.
C10_Witness ==
    /\ IsEmissionsReportCall
    /\ call.parent = DEFAULT_REPORTING_ORG_VERSION
    /\ call.child = DEFAULT_EMISSIONS_REPORT_VERSION
    /\ outcome = Returned(TRUE)

\* The TCS-data versions, oldest to newest.
TCSOldestToNewest == <<"0.0.1", "0.0.2", "0.1.0">>

\* A matrix is well formed over a parent enumeration and the child versions
\* in oldest-to-newest order: its keys are exactly the parents, every listed
\* child is a child version, no child is listed twice under a parent, and
\* the children of a parent are the oldest Len(list) child versions.
WellFormed(matrix, parents, children) ==
    /\ DOMAIN matrix = parents
    /\ \A p \in DOMAIN matrix :
           LET lst == matrix[p]
           IN  /\ Elements(lst) \subseteq Elements(children)
               /\ \A i, j \in 1..Len(lst) : i # j => lst[i] # lst[j]
               /\ Len(lst) <= Len(children)
               /\ Elements(lst) = {children[i] : i \in 1..Len(lst)}
               /\ \A i, j \in 1..Len(children) :
                      (i < j /\ children[j] \in Elements(lst))
                          => children[i] \in Elements(lst)

\* C11: the keys of each matrix are exactly the parent layer's enumeration,
\* every listed child is a member of the child layer's enumeration, no child
\* is listed twice under one parent, and the children a parent accepts are a
\* prefix of the child enumeration in oldest-to-newest order: a parent that
\* accepts child c accepts every older child, as the predicates show.
C11_WellFormedMatrices ==
    /\ Elements(EmissionsReportOldestToNewest) = EnumValues(EmissionsReportVersion)
    /\ Elements(TCSOldestToNewest) = EnumValues(TCSVersion)
    /\ WellFormed(REPORTING_ORG_COMPATIBILITY,
                  EnumValues(ReportingOrgVersion), EmissionsReportOldestToNewest)
    /\ WellFormed(EMISSIONS_REPORT_COMPATIBILITY,
                  EnumValues(EmissionsReportVersion), TCSOldestToNewest)
    /\ \A i, j \in 1..Len(EmissionsReportOldestToNewest) :
           (/\ i < j
            /\ IsEmissionsReportCall
            /\ call.child = EmissionsReportOldestToNewest[j]
            /\ outcome = Returned(TRUE))
               => is_emissions_report_compatible(
                      call.parent, EmissionsReportOldestToNewest[i]) = Returned(TRUE)
    /\ \A i, j \in 1..Len(TCSOldestToNewest) :
           (/\ i < j
            /\ IsTcsCall
            /\ call.child = TCSOldestToNewest[j]
            /\ outcome = Returned(TRUE))
               => is_tcs_compatible(call.parent, TCSOldestToNewest[i]) = Returned(TRUE)

\* A parent that accepts a proper prefix has accepted the newest child of
\* its list; it accepts the older child and rejects the newer one.
C11_Witness ==
    /\ IsEmissionsReportCall
    /\ call.parent = "0.1.0"
    /\ call.child = "0.0.2"
    /\ outcome = Returned(TRUE)
    /\ is_emissions_report_compatible(call.parent, "0.0.1") = Returned(TRUE)
    /\ is_emissions_report_compatible(call.parent, "0.0.3") = Returned(FALSE)
    /\ Len(REPORTING_ORG_COMPATIBILITY[call.parent]) = 2

====
